---- MODULE Spec2Model ----
(***************************************************************************)
(* Task-execution engine of the browser agent: the orchestrator loop       *)
(* (agents/orchestrator.py), the security gate (agents/security.py), the   *)
(* tool dispatch (_call_tool) and the context manager                      *)
(* (context/manager.py).                                                   *)
(*                                                                         *)
(* Texts whose characters matter (selectors, reasons, patterns) are        *)
(* sequences of one-character strings.  Message contents are records       *)
(* giving the leading marker, the payload and the length in characters.    *)
(***************************************************************************)
EXTENDS Integers, Sequences, FiniteSets, TLC

\* ------------------------------------------------------------------ bounds
MaxBudget == 2      \* largest configured step budget (agent_config.max_steps)
MaxCalls == 2       \* most tool calls in one decision-maker response
MaxTasks == 2       \* execute_task calls made on one orchestrator instance
MaxWindow == 2      \* largest configured sliding_window_size
MaxAppends == 3     \* appends made in the context-manager specification

\* ------------------------------------------------------- program constants
TruncateThreshold == 5000   \* len(content) > 5000
TruncateKeep == 4500        \* content[:4500]
TruncateMarkerLen == 15     \* len("... [truncated]")
FallbackCharsPerToken == 4  \* len(text) // 4

None == [none |-> TRUE]

\* ------------------------------------------------------------------- texts
S(chars) == [t |-> "str", v |-> chars]
I(n) == [t |-> "int", v |-> n]
B(b) == [t |-> "bool", v |-> b]

LowerChar(c) ==
    CASE c = "D" -> "d"
      [] c = "E" -> "e"
      [] c = "L" -> "l"
      [] c = "C" -> "c"
      [] c = "V" -> "v"
      [] OTHER -> c

\* str.lower()
lower(s) == [i \in 1..Len(s) |-> LowerChar(s[i])]

\* pattern in text
Contains(pattern, text) ==
    \E i \in 0..(Len(text) - Len(pattern)) :
        SubSeq(text, i + 1, i + Len(pattern)) = pattern

\* dict.get(key, default)
Get(args, key, default) == IF key \in DOMAIN args THEN args[key] ELSE default

PaymentKeywords == << <<"c","a","r","d">>, <<"p","a","y","m","e","n","t">>,
                      <<"c","v","v">>, <<"c","r","e","d","i","t">> >>

\* ----------------------------------------------------------- security gate
FirstMatch(patterns, selector, reason_text) ==
    LET hits == {i \in 1..Len(patterns) :
                    Contains(patterns[i], selector) \/ Contains(patterns[i], reason_text)}
    IN IF hits = {} THEN 0 ELSE CHOOSE i \in hits : \A j \in hits : i <= j

IsPaymentField_TextToo(selector, text, patterns) ==
    \E k \in 1..Len(PaymentKeywords) :
        Contains(PaymentKeywords[k], selector) \/ Contains(PaymentKeywords[k], text)

\* any(keyword in selector for keyword in ["card", "payment", "cvv", "credit"])
IsPaymentField(selector, text, patterns) ==
    \E k \in 1..Len(PaymentKeywords) : Contains(PaymentKeywords[k], selector)

NotClassified_PatternInUrl(parameters, patterns) ==
    LET url == Get(parameters, "url", S(<<>>))
    IN [raised |-> FALSE,
        destructive |-> \E i \in 1..Len(patterns) : Contains(patterns[i], url.v),
        reason |-> <<"">>]

\* return False, "" for an action that is neither click nor type_text
NotClassified(parameters, patterns) ==
    [raised |-> FALSE, destructive |-> FALSE, reason |-> <<"">>]

\* SecurityAgent._is_destructive_action; raised = the call raised
\* (str.lower() of a value that is not a string)
_is_destructive_action(action_name, parameters, patterns) ==
    LET sel == Get(parameters, "selector", S(<<>>))
        rsn == Get(parameters, "reason", S(<<>>))
        txt == Get(parameters, "text", S(<<>>))
        safe == [raised |-> FALSE, destructive |-> FALSE, reason |-> <<"">>]
    IN IF action_name = "click"
       THEN IF sel.t # "str" \/ rsn.t # "str"
            THEN [raised |-> TRUE, destructive |-> FALSE, reason |-> <<"">>]
            ELSE LET m == FirstMatch(patterns, lower(sel.v), lower(rsn.v))
                 IN IF m # 0
                    THEN [raised |-> FALSE, destructive |-> TRUE,
                          reason |-> <<"destructive pattern", patterns[m]>>]
                    ELSE safe
       ELSE IF action_name = "type_text"
       THEN IF txt.t # "str" \/ sel.t # "str"
            THEN [raised |-> TRUE, destructive |-> FALSE, reason |-> <<"">>]
            ELSE IF IsPaymentField(lower(sel.v), lower(txt.v), patterns)
                 THEN [raised |-> FALSE, destructive |-> TRUE,
                       reason |-> <<"payment data">>]
                 ELSE safe
       ELSE NotClassified(parameters, patterns)

Verdict(safe, reason, rc, asked) ==
    [raised |-> FALSE, safe |-> safe, reason |-> reason,
     requires_confirmation |-> rc, asked |-> asked]

RaisedVerdict(asked) ==
    [raised |-> TRUE, safe |-> FALSE, reason |-> <<"">>,
     requires_confirmation |-> FALSE, asked |-> asked]

\* the verdict of check_action for a flagged action when no callback is set
NoCallbackVerdict_Safe(reason) == Verdict(TRUE, reason, FALSE, FALSE)

NoCallbackVerdict(reason) == Verdict(FALSE, reason, TRUE, FALSE)

\* the verdict of check_action for a flagged action when a callback is set:
\* the callback is awaited on every invocation
AskCallback_Remembered(answer) == Verdict(TRUE, <<"confirmed by user">>, FALSE, FALSE)

AskCallback(answer) ==
    IF answer = "raise" THEN RaisedVerdict(TRUE)
    ELSE IF answer = "yes"
    THEN Verdict(TRUE, <<"confirmed by user">>, FALSE, TRUE)
    ELSE Verdict(FALSE, <<"rejected by user">>, FALSE, TRUE)

\* the verdict of check_action when the gate is disabled
DisabledVerdict_NeedsConfirmation == Verdict(FALSE, <<"disabled">>, TRUE, FALSE)

DisabledVerdict == Verdict(TRUE, <<"disabled">>, FALSE, FALSE)

\* SecurityAgent.check_action; answer is what the confirmation callback
\* does when it is called: "yes", "no" or "raise"
check_action(action_name, parameters, gate, patterns, callback, answer) ==
    IF ~gate
    THEN DisabledVerdict
    ELSE LET d == _is_destructive_action(action_name, parameters, patterns)
         IN IF d.raised THEN RaisedVerdict(FALSE)
            ELSE IF d.destructive
            THEN IF callback
                 THEN AskCallback(answer)
                 ELSE NoCallbackVerdict(d.reason)
            ELSE Verdict(TRUE, <<"safe">>, FALSE, FALSE)

\* ----------------------------------------------------------- tool dispatch
\* BROWSER_TOOLS: the declared action surface and the arguments each
\* schema lists under "required"
DeclaredTools == {"click", "type_text", "navigate", "scroll", "go_back",
                  "extract_text", "wait", "press_key", "task_complete", "ask_user"}

Required(tool_name) ==
    CASE tool_name = "click" -> {"selector", "reason"}
      [] tool_name = "type_text" -> {"selector", "text", "reason"}
      [] tool_name = "navigate" -> {"url", "reason"}
      [] tool_name = "scroll" -> {"direction", "amount"}
      [] tool_name = "extract_text" -> {"selector"}
      [] tool_name = "wait" -> {"seconds", "reason"}
      [] tool_name = "press_key" -> {"key", "reason"}
      [] tool_name = "task_complete" -> {"result", "success"}
      [] tool_name = "ask_user" -> {"question"}
      [] OTHER -> {}

\* a tool result (the dict handed to json.dumps)
Result(success, msg) ==
    [success |-> success, msg |-> msg,
     requires_user_confirmation |-> FALSE, user_input_required |-> FALSE]

\* the arguments _call_tool reads with args[...] (a KeyError when absent)
Subscripted(tool_name) ==
    CASE tool_name = "click" -> {"selector"}
      [] tool_name = "type_text" -> {"selector", "text"}
      [] tool_name = "navigate" -> {"url"}
      [] tool_name = "scroll" -> {"direction"}
      [] tool_name = "extract_text" -> {"selector"}
      [] tool_name = "wait" -> {"seconds"}
      [] tool_name = "press_key" -> {"key"}
      [] OTHER -> {}

BrowserTools == {"click", "type_text", "navigate", "scroll", "go_back",
                 "extract_text", "wait", "press_key"}

TaskResult(success, result, steps_taken, error) ==
    [success |-> success, result |-> result, steps_taken |-> steps_taken,
     error |-> error]

\* the else branch of _call_tool: the name is none of the known tools
UnknownTool_Raises(keep) ==
    [keep EXCEPT !.raised = TRUE] @@ [result |-> Result(FALSE, <<>>)]

UnknownTool(keep) == keep @@ [result |-> Result(FALSE, <<"unknown tool">>)]

\* the ask_user branch of _call_tool: the question is logged and a result
\* dict is returned; nothing else is touched
AskUser_Halts(keep) ==
    [keep EXCEPT !.task_completed = TRUE] @@
    [result |-> [Result(FALSE, <<"user input required">>)
                   EXCEPT !.user_input_required = TRUE]]

AskUser(keep) ==
    keep @@ [result |-> [Result(FALSE, <<"user input required">>)
                           EXCEPT !.user_input_required = TRUE]]

RecordCompletion_KeepFirst(args, step, completed, recorded) ==
    IF completed THEN recorded
    ELSE TaskResult(Get(args, "success", B(TRUE)).v, Get(args, "result", S(<<>>)).v,
                    step, "none")

\* the task_complete branch: self.task_result is assigned a new TaskResult
\* from args.get("success", True), args.get("result", "") and the current
\* step, whatever was recorded before
RecordCompletion(args, step, completed, recorded) ==
    TaskResult(Get(args, "success", B(TRUE)).v, Get(args, "result", S(<<>>)).v,
               step, "none")

\* OrchestratorAgent._call_tool.  browser_ok is the outcome of the browser
\* agent's method when it is invoked (each returns a success or an error
\* dict).  The answer gives the result dict, whether the browser agent was
\* invoked, and the completion flag and recorded result after the call.
_call_tool(tool_name, args, step, browser_ok, completed, recorded) ==
    LET keep == [raised |-> FALSE, browser |-> FALSE,
                 task_completed |-> completed, task_result |-> recorded]
        \* every branch sits inside try/except Exception: nothing is raised
    IN IF tool_name \in BrowserTools
       THEN IF Subscripted(tool_name) \subseteq DOMAIN args
            THEN [keep EXCEPT !.browser = TRUE] @@
                 [result |-> IF browser_ok THEN Result(TRUE, <<"browser done">>)
                             ELSE Result(FALSE, <<"browser error">>)]
            ELSE keep @@ [result |-> Result(FALSE, <<"KeyError">>)]
       ELSE IF tool_name = "task_complete"
       THEN [keep EXCEPT !.task_completed = TRUE,
                         !.task_result = RecordCompletion(args, step, completed, recorded)] @@
            [result |-> Result(TRUE, <<"task complete">>)]
       ELSE IF tool_name = "ask_user"
       THEN AskUser(keep)
       ELSE UnknownTool(keep)

\* --------------------------------------------------------- context manager
\* A message: role and content as the code stores them (content is the
\* leading marker, what the payload says and the length in characters);
\* kind, olen and task record which append made it, cut whether the text
\* was replaced by its truncation.
Message(role, kind, head, body, len, task) ==
    [role |-> role, kind |-> kind, head |-> head, body |-> body, len |-> len,
     olen |-> len, cut |-> FALSE, task |-> task]

\* json.dumps(result) as it reads in a message: the success flag and the
\* two markers the decision-maker is told about
json_dumps(result) ==
    <<result.success, result.requires_user_confirmation, result.user_input_required>>

DequeAppend_Front(history, msg, window) ==
    LET h == <<msg>> \o history
    IN IF Len(h) > 2 * window THEN SubSeq(h, 1, 2 * window) ELSE h

DequeAppend_Window(history, msg, window) ==
    LET h == Append(history, msg)
    IN IF Len(h) > window THEN SubSeq(h, Len(h) - window + 1, Len(h)) ELSE h

\* deque(maxlen = sliding_window_size * 2).append
DequeAppend(history, msg, window) ==
    LET h == Append(history, msg)
    IN IF Len(h) > 2 * window THEN SubSeq(h, Len(h) - 2 * window + 1, Len(h)) ELSE h

add_user_message(history, body, len, window, task) ==
    DequeAppend(history, Message("user", "user", "text", body, len, task), window)

\* the assistant text is the decision-maker's: head is how it starts
add_assistant_message(history, head, body, len, window, task) ==
    DequeAppend(history, Message("assistant", "assistant", head, body, len, task), window)

\* content = f"TOOL RESULT [{tool_name}]: {result}"
add_tool_result(history, tool_name, result, len, window, task) ==
    DequeAppend(history,
                Message("user", "tool", "TOOL RESULT", <<tool_name, result>>, len, task),
                window)

\* len(self.tokenizer.encode(text)): the tokenizer is external; a count
\* that grows with the length stands for it
Tokenize(len) == (len + 3) \div 4

count_tokens_NoFallback(len, tok_ok) == IF tok_ok THEN Tokenize(len) ELSE 0

\* LLMClient.count_tokens; tok_ok = the tokenizer did not fail
count_tokens(len, tok_ok) ==
    IF tok_ok THEN Tokenize(len) ELSE len \div FallbackCharsPerToken

RECURSIVE _count_messages_tokens(_, _)
_count_messages_tokens(messages, tok_ok) ==
    IF messages = <<>> THEN 0
    ELSE count_tokens(Head(messages).len, tok_ok)
         + _count_messages_tokens(Tail(messages), tok_ok)

\* the test guarding msg["content"] = content[:4500] + "... [truncated]"
ShouldTruncate_AnyLong(msg) ==
    /\ msg.role # "system"
    /\ msg.len > TruncateThreshold

ShouldTruncate(msg) ==
    /\ msg.role # "system"
    /\ msg.head # "TOOL RESULT"
    /\ msg.len > TruncateThreshold

Truncate_ToThreshold(msg) ==
    IF ShouldTruncate(msg)
    THEN [msg EXCEPT !.len = TruncateThreshold + TruncateMarkerLen, !.cut = TRUE]
    ELSE msg

\* msg["content"] = content[:4500] + "... [truncated]" under its three tests
Truncate(msg) ==
    IF ShouldTruncate(msg)
    THEN [msg EXCEPT !.len = TruncateKeep + TruncateMarkerLen, !.cut = TRUE]
    ELSE msg

LastN_Oldest(s, n) == IF Len(s) > n THEN SubSeq(s, 1, n) ELSE s

\* other_msgs[-n:]
LastN(s, n) == IF Len(s) > n THEN SubSeq(s, Len(s) - n + 1, Len(s)) ELSE s

\* ContextManager._compress_messages.  The answer gives the compressed
\* list, whether the truncation pass ran and how many non-system messages
\* were kept.
_compress_messages(messages, window, max_tokens, tok_ok) ==
    LET IsSys(m) == m.role = "system"
        NotSys(m) == m.role # "system"
        systems == SelectSeq(messages, IsSys)
        other_msgs == SelectSeq(messages, NotSys)
        recent_msgs == LastN(other_msgs, window)
        compressed == (IF systems # <<>> THEN <<systems[Len(systems)]>> ELSE <<>>)
                      \o recent_msgs
        over == _count_messages_tokens(compressed, tok_ok) > max_tokens
    IN [messages |-> IF over THEN [i \in 1..Len(compressed) |-> Truncate(compressed[i])]
                     ELSE compressed,
        truncated |-> over,
        kept |-> Len(recent_msgs)]

\* ContextManager.get_messages.  The answer gives the returned list and the
\* stored history after the call: the returned list holds the stored dicts
\* themselves, so the truncation pass rewrites the stored entries it kept.
get_messages(history, system_message, window, max_tokens, tok_ok) ==
    LET messages == (IF system_message.len > 0 THEN <<system_message>> ELSE <<>>)
                    \o history
        total_tokens == _count_messages_tokens(messages, tok_ok)
    IN IF total_tokens > max_tokens
       THEN LET c == _compress_messages(messages, window, max_tokens, tok_ok)
                n == Len(history)
            IN [messages |-> c.messages,
                compressed |-> TRUE,
                truncated |-> c.truncated,
                history |-> IF c.truncated
                            THEN [i \in 1..n |-> IF i > n - c.kept
                                                 THEN Truncate(history[i])
                                                 ELSE history[i]]
                            ELSE history]
       ELSE [messages |-> messages, compressed |-> FALSE, truncated |-> FALSE,
             history |-> history]

\* ------------------------------------------------------------ orchestrator
VARIABLES
    pc,                 \* "idle" (no call), "loop" (at the while test), "acting" (in the for loop)
    max_steps, current_step, task_completed, task_result,
    enabled, destructive_patterns, user_confirmation_callback,
    sliding_window_size, max_tokens,
    message_history, system_message,
    tool_calls,         \* how many tool calls of the response the for loop has still to process
    returned,           \* the list the last get_messages call returned
    outcome,            \* how the last execute_task call ended
    tasks_run,          \* execute_task calls started so far
    iterations,         \* loop bodies entered by the current call
    appends,            \* appends made (context-manager specification)
    is_initialized,     \* BrowserAutomation._is_initialized: the browser session is open
    element_map,        \* SmartSelectorSystem.element_map: the identifiers discovery returned
    data_ai_ids,        \* the data-ai-id attributes the elements of the page carry
    last                \* the last thing that happened

vars == <<pc, max_steps, current_step, task_completed, task_result,
          enabled, destructive_patterns, user_confirmation_callback,
          sliding_window_size, max_tokens, message_history, system_message,
          tool_calls, returned, outcome, tasks_run, iterations, appends,
          is_initialized, element_map, data_ai_ids, last>>

config == <<max_steps, enabled, destructive_patterns, user_confirmation_callback,
            sliding_window_size, max_tokens>>

browser_state == <<is_initialized, element_map, data_ai_ids>>

\* texts used by the decision-maker's tool calls
PatDel == <<"d","e","l">>
SelDelete == <<"#","D","e","l">>
SelOk == <<"o","k">>
SelCvv == <<"c","v","v">>
Why == <<"g","o">>

\* configured token budgets (context_config.max_tokens)
TokenBudgets == {1200}
PlanLens == {400, 6000}
\* lengths, in characters, of the texts the orchestrator appends
TextLen == [system |-> 2000, task |-> 200, recovery |-> 300,
            assistant |-> 300, tool_result |-> 120]
IterCap == MaxBudget + 2

Call(name, args) == [name |-> name, args |-> args]

ToolCalls ==
    { Call("click", [selector |-> S(SelDelete), reason |-> S(Why)]),
      Call("click", [selector |-> S(SelOk), reason |-> S(Why)]),
      Call("click", [selector |-> S(SelOk)]),
      Call("click", [reason |-> S(Why)]),
      Call("click", [selector |-> I(7), reason |-> S(Why)]),
      Call("type_text", [selector |-> S(SelCvv), text |-> S(Why), reason |-> S(Why)]),
      Call("navigate", [url |-> S(PatDel), reason |-> S(Why)]),
      Call("task_complete", [result |-> S(SelOk), success |-> B(TRUE)]),
      Call("task_complete", [result |-> S(SelOk), success |-> B(FALSE)]),
      Call("ask_user", [question |-> S(Why)]),
      Call("hover", [selector |-> S(SelDelete), reason |-> S(Why)]) }

\* the unified response dict of LLMClient.chat_completion: whether it has a
\* text content and how many tool calls it lists.  The for loop reads the
\* tool calls one at a time, so each is drawn when the loop reaches it.
Responses == [content : BOOLEAN, tool_calls : 0..MaxCalls]

NoVerdict == Verdict(TRUE, <<"">>, FALSE, FALSE)
NoResult == Result(FALSE, <<>>)
NoCall == Call("", [none |-> S(<<>>)])

Event(ev) ==
    [ev |-> ev, call |-> NoCall, verdict |-> NoVerdict, checked |-> FALSE,
     dispatched |-> FALSE, browser |-> FALSE, result |-> NoResult,
     appended |-> FALSE, error |-> "none", recovered |-> FALSE,
     compressed |-> FALSE, truncated |-> FALSE, request |-> <<>>,
     locator |-> <<>>, at |-> "none", tok_ok |-> TRUE, performed |-> <<>>]

\* how a call of execute_task ended: it returned a TaskResult or an
\* exception left it ("none" while it runs)
Outcome(kind, result, error) == [kind |-> kind, result |-> result, error |-> error]

\* the condition of the while loop
LoopGuard_OffByOne(completed, step, budget) == ~completed /\ step <= budget

LoopGuard(completed, step, budget) == ~completed /\ step < budget

\* self.current_step += 1
StepInc_Stuck(step) == step

StepInc_Twice(step) == step + 2

StepInc(step) == step + 1

\* the return statements after the loop
FinalResult_StrictLimit(completed, recorded, step, budget) ==
    IF completed /\ recorded # None THEN recorded
    ELSE IF step > budget THEN TaskResult(FALSE, <<>>, step, "step limit")
    ELSE TaskResult(FALSE, <<>>, step, "unknown")

FinalResult_LimitFirst(completed, recorded, step, budget) ==
    IF step >= budget THEN TaskResult(FALSE, <<>>, step, "step limit")
    ELSE IF completed /\ recorded # None THEN recorded
    ELSE TaskResult(FALSE, <<>>, step, "unknown")

FinalResult(completed, recorded, step, budget) ==
    IF completed /\ recorded # None THEN recorded
    ELSE IF step >= budget THEN TaskResult(FALSE, <<>>, step, "step limit")
    ELSE TaskResult(FALSE, <<>>, step, "unknown")

\* the result dict _execute_tool_call builds for an action the gate stopped
BlockedResult_AlwaysFlag(v) ==
    [Result(FALSE, <<"needs confirmation", v.reason>>)
       EXCEPT !.requires_user_confirmation = TRUE]

BlockedResult_NoFlag(v) == Result(FALSE, v.reason)

BlockedResult(v) ==
    IF v.requires_confirmation
    THEN [Result(FALSE, <<"needs confirmation", v.reason>>)
            EXCEPT !.requires_user_confirmation = TRUE]
    ELSE Result(FALSE, v.reason)

\* OrchestratorAgent._execute_tool_call on one tool call.  answer and
\* browser_ok are what the confirmation callback and the browser do if they
\* are called.  raised = an exception leaves the method.
_execute_tool_call(call, gate, patterns, callback, answer, browser_ok, history, window, task, step, completed, recorded) ==
    LET v == IF gate
             THEN check_action(call.name, call.args, gate, patterns, callback, answer)
             ELSE NoVerdict
        same == [history |-> history, task_completed |-> completed,
                 task_result |-> recorded, verdict |-> v, checked |-> gate,
                 dispatched |-> FALSE, browser |-> FALSE, result |-> NoResult,
                 appended |-> FALSE, raised |-> FALSE]
    IN IF gate /\ v.raised
       THEN [same EXCEPT !.raised = TRUE]
       ELSE IF gate /\ ~v.safe
       THEN LET r == BlockedResult(v)
            IN [same EXCEPT !.result = r, !.appended = TRUE,
                            !.history = add_tool_result(history, call.name, json_dumps(r),
                                                        TextLen.tool_result, window, task)]
       ELSE LET d == _call_tool(call.name, call.args, step, browser_ok,
                                completed, recorded)
            IN IF d.raised THEN [same EXCEPT !.dispatched = TRUE, !.raised = TRUE]
               ELSE
               [same EXCEPT !.dispatched = TRUE, !.browser = d.browser,
                            !.result = d.result, !.appended = TRUE,
                            !.task_completed = d.task_completed,
                            !.task_result = d.task_result,
                            !.history = add_tool_result(history, call.name, json_dumps(d.result),
                                                        TextLen.tool_result, window, task)]

\* what the confirmation callback can do when check_action calls it, and
\* what the browser can do when _call_tool invokes it
Answers(call, gate, patterns, callback) ==
    IF check_action(call.name, call.args, gate, patterns, callback, "yes").asked
    THEN {"yes", "no", "raise"} ELSE {"yes"}

BrowserOutcomes(call) ==
    IF _call_tool(call.name, call.args, 0, TRUE, FALSE, None).browser
    THEN BOOLEAN ELSE {TRUE}

SystemPrompt == Message("system", "system", "text", <<"system prompt">>, TextLen.system, 0)
NoSystem == Message("system", "system", "text", <<>>, 0, 0)

Init ==
    /\ pc = "idle"
    /\ max_steps \in 0..MaxBudget
    /\ current_step = 0
    /\ task_completed = FALSE
    /\ task_result = None
    /\ enabled \in BOOLEAN
    /\ destructive_patterns = <<PatDel>>
    /\ user_confirmation_callback \in BOOLEAN
    /\ sliding_window_size = 1
    /\ max_tokens \in TokenBudgets
    /\ message_history = <<>>
    /\ system_message = NoSystem
    /\ tool_calls = 0
    /\ returned = <<>>
    /\ outcome = Outcome("none", None, "none")
    /\ tasks_run = 0
    /\ iterations = 0
    /\ appends = 0
    /\ is_initialized = TRUE
    /\ element_map = <<>>
    /\ data_ai_ids = {}
    /\ last = Event("new")

ResetTaskState_Kept(completed, result, step) ==
    [task_completed |-> completed, task_result |-> result, current_step |-> step]

\* the three assignments at the head of execute_task
ResetTaskState(completed, result, step) ==
    [task_completed |-> FALSE, task_result |-> None, current_step |-> 0]

\* execute_task up to the while loop.  fail names the seeding call that
\* raises, if any; nothing catches it there.
StartTask ==
    /\ pc = "idle"
    /\ tasks_run < MaxTasks
    /\ tasks_run' = tasks_run + 1
    /\ LET fresh == ResetTaskState(task_completed, task_result, current_step)
       IN /\ task_completed' = fresh.task_completed
          /\ task_result' = fresh.task_result
          /\ current_step' = fresh.current_step
    /\ iterations' = 0
    /\ tool_calls' = 0
    /\ \E fail \in {"none", "system", "user"} :
        /\ system_message' = IF fail = "system" THEN system_message ELSE SystemPrompt
        /\ message_history' =
              IF fail = "none"
              THEN add_user_message(message_history, <<"task">>, TextLen.task,
                                    sliding_window_size, tasks_run')
              ELSE message_history
        /\ pc' = IF fail = "none" THEN "loop" ELSE "idle"
        /\ outcome' = IF fail = "none" THEN Outcome("none", None, "none")
                      ELSE Outcome("raised", None, fail)
        /\ last' = [Event("init") EXCEPT !.error = fail]
    /\ returned' = <<>>
    /\ UNCHANGED <<config, browser_state, appends>>

RecoveryFailedResult_StepLimit(step, error) == TaskResult(FALSE, <<>>, step, "step limit")

\* the return inside the except branch: _attempt_recovery returned False
RecoveryFailedResult(step, error) == TaskResult(FALSE, <<>>, step, error)

_attempt_recovery_NoMessage(history, error, step, append_ok, window, task) ==
    [recovered |-> TRUE, history |-> history]

\* OrchestratorAgent._attempt_recovery: the recovery prompt is made from the
\* error text and the current step and appended as a user message;
\* append_ok = FALSE when making or appending it raises
_attempt_recovery(history, error, step, append_ok, window, task) ==
    IF append_ok
    THEN [recovered |-> TRUE,
          history |-> add_user_message(history, <<"recovery", error, step>>,
                                       TextLen.recovery, window, task)]
    ELSE [recovered |-> FALSE, history |-> history]

\* the except branch of the loop: _attempt_recovery, and the return when it fails
Recover(history, step, error, rec_ok, ev) ==
    LET r == _attempt_recovery(history, error, step, rec_ok, sliding_window_size, tasks_run)
    IN /\ tool_calls' = 0
       /\ message_history' = r.history
       /\ IF r.recovered
          THEN /\ pc' = "loop"
               /\ outcome' = outcome
               /\ last' = [ev EXCEPT !.error = error, !.recovered = TRUE]
          ELSE /\ pc' = "idle"
               /\ outcome' = Outcome("returned", RecoveryFailedResult(step, error), "none")
               /\ last' = [ev EXCEPT !.error = error]

_process_llm_response_EmptyResult(history, response, window, task) ==
    LET h == IF response.content
             THEN add_assistant_message(history, "text", <<"thought">>,
                                        TextLen.assistant, window, task)
             ELSE history
    IN IF response.tool_calls = 0
       THEN [history |-> add_tool_result(h, "none", json_dumps(Result(FALSE, <<>>)),
                                         TextLen.tool_result, window, task),
             pc |-> "loop"]
       ELSE [history |-> h, pc |-> "acting"]

\* OrchestratorAgent._process_llm_response up to its for loop: the text of
\* the response is appended as an assistant message; without tool calls the
\* method returns, with tool calls the for loop runs (pc = "acting")
_process_llm_response(history, response, window, task) ==
    [history |-> IF response.content
                 THEN add_assistant_message(history, "text", <<"thought">>,
                                            TextLen.assistant, window, task)
                 ELSE history,
     pc |-> IF response.tool_calls = 0 THEN "loop" ELSE "acting"]

\* one pass of the loop body up to the for loop over the tool calls:
\* observe the page, append the planning prompt, ask the decision-maker
\* with the list get_messages returns (kept as the request of the event)
Plan ==
    /\ pc = "loop"
    /\ LoopGuard(task_completed, current_step, max_steps)
    /\ iterations < IterCap
    /\ iterations' = iterations + 1
    /\ current_step' = StepInc(current_step)
    /\ \E got \in {"page error", "llm error", "response"} :
        IF got = "page error"
        THEN /\ \E rec_ok \in BOOLEAN :
                    Recover(message_history, current_step', got, rec_ok, Event("plan"))
             /\ UNCHANGED returned
        ELSE \E plen \in PlanLens, tok_ok \in BOOLEAN :
             LET h1 == add_user_message(message_history, <<"planning">>, plen,
                                        sliding_window_size, tasks_run)
                 gm == get_messages(h1, system_message, sliding_window_size,
                                    max_tokens, tok_ok)
                 ev == [Event("plan") EXCEPT !.compressed = gm.compressed,
                                             !.truncated = gm.truncated,
                                             !.tok_ok = tok_ok,
                                             !.request = gm.messages]
             IN /\ returned' = returned
                /\ IF got = "llm error"
                   THEN \E rec_ok \in BOOLEAN :
                            Recover(gm.history, current_step', got, rec_ok, ev)
                   ELSE \E response \in Responses :
                        LET p == _process_llm_response(gm.history, response,
                                                       sliding_window_size, tasks_run)
                        IN
                        /\ message_history' = p.history
                        /\ tool_calls' = response.tool_calls
                        /\ pc' = p.pc
                        /\ outcome' = outcome
                        /\ last' = ev
    /\ UNCHANGED <<config, browser_state, task_completed, task_result, system_message, tasks_run, appends>>

\* one pass of the for loop: _execute_tool_call on the next tool call
Act ==
    /\ pc = "acting"
    /\ \E call \in ToolCalls :
        \E answer \in Answers(call, enabled, destructive_patterns, user_confirmation_callback),
           browser_ok \in BrowserOutcomes(call) :
        LET x == _execute_tool_call(call, enabled, destructive_patterns,
                                    user_confirmation_callback, answer, browser_ok,
                                    message_history, sliding_window_size,
                                    tasks_run, current_step, task_completed, task_result)
            ev == [Event("act") EXCEPT !.call = call, !.verdict = x.verdict,
                                       !.checked = x.checked,
                                       !.dispatched = x.dispatched,
                                       !.browser = x.browser, !.result = x.result,
                                       !.appended = x.appended]
        IN IF x.raised
           THEN /\ \E rec_ok \in BOOLEAN :
                       Recover(message_history, current_step,
                               IF x.dispatched THEN "dispatch error"
                               ELSE IF x.verdict.asked THEN "callback error"
                               ELSE "security error",
                               rec_ok, ev)
                /\ UNCHANGED <<task_completed, task_result>>
           ELSE /\ message_history' = x.history
                /\ task_completed' = x.task_completed
                /\ task_result' = x.task_result
                /\ tool_calls' = tool_calls - 1
                /\ pc' = IF tool_calls = 1 THEN "loop" ELSE "acting"
                /\ outcome' = outcome
                /\ last' = ev
    /\ UNCHANGED <<config, browser_state, current_step, system_message, returned, tasks_run,
                   iterations, appends>>

\* the loop test fails: the return statements after the loop
Finish ==
    /\ pc = "loop"
    /\ ~LoopGuard(task_completed, current_step, max_steps)
    /\ pc' = "idle"
    /\ outcome' = Outcome("returned",
                          FinalResult(task_completed, task_result, current_step, max_steps),
                          "none")
    /\ last' = Event("finish")
    /\ UNCHANGED <<config, browser_state, current_step, task_completed, task_result,
                   message_history, system_message, tool_calls, returned,
                   tasks_run, iterations, appends>>

Next == StartTask \/ Plan \/ Act \/ Finish

Spec == Init /\ [][Next]_vars

\* -------------------------------------------- the context manager by itself
\* lengths of the appended texts, around the truncation threshold
Lens == {100, TruncateThreshold + 1}

CtxInit ==
    /\ pc = "context"
    /\ max_steps = 0
    /\ current_step = 0
    /\ task_completed = FALSE
    /\ task_result = None
    /\ enabled = FALSE
    /\ destructive_patterns = <<>>
    /\ user_confirmation_callback = FALSE
    /\ sliding_window_size \in 1..MaxWindow
    /\ max_tokens \in TokenBudgets
    /\ message_history = <<>>
    /\ system_message = NoSystem
    /\ tool_calls = 0
    /\ returned = <<>>
    /\ outcome = Outcome("none", None, "none")
    /\ tasks_run = 0
    /\ iterations = 0
    /\ appends = 0
    /\ is_initialized = TRUE
    /\ element_map = <<>>
    /\ data_ai_ids = {}
    /\ last = Event("new")

CtxFrame ==
    UNCHANGED <<pc, config, browser_state, current_step, task_completed, task_result,
                tool_calls, outcome, tasks_run, iterations>>

\* ContextManager.set_system_message
SetSystemMessage ==
    /\ pc = "context"
    /\ system_message = NoSystem
    /\ system_message' = SystemPrompt
    /\ returned' = <<>>
    /\ last' = Event("set system")
    /\ UNCHANGED <<message_history, appends>>
    /\ CtxFrame

\* ContextManager.add_user_message
AddUserMessage ==
    /\ pc = "context"
    /\ appends < MaxAppends
    /\ appends' = appends + 1
    /\ \E len \in Lens :
          message_history' = add_user_message(message_history, <<appends'>>, len,
                                              sliding_window_size, 0)
    /\ returned' = <<>>
    /\ last' = Event("append")
    /\ UNCHANGED system_message
    /\ CtxFrame

\* ContextManager.add_assistant_message; the text is the decision-maker's
\* and may itself start with "TOOL RESULT"
AddAssistantMessage ==
    /\ pc = "context"
    /\ appends < MaxAppends
    /\ appends' = appends + 1
    /\ \E len \in Lens, head \in {"text", "TOOL RESULT"} :
          message_history' = add_assistant_message(message_history, head, <<appends'>>,
                                                   len, sliding_window_size, 0)
    /\ returned' = <<>>
    /\ last' = Event("append")
    /\ UNCHANGED system_message
    /\ CtxFrame

\* ContextManager.add_tool_result
AddToolResult ==
    /\ pc = "context"
    /\ appends < MaxAppends
    /\ appends' = appends + 1
    /\ \E len \in Lens :
          message_history' = add_tool_result(message_history, "tool", <<appends'>>, len,
                                             sliding_window_size, 0)
    /\ returned' = <<>>
    /\ last' = Event("append")
    /\ UNCHANGED system_message
    /\ CtxFrame

\* ContextManager.get_messages
GetMessages ==
    /\ pc = "context"
    /\ \E tok_ok \in BOOLEAN :
          LET gm == get_messages(message_history, system_message,
                                 sliding_window_size, max_tokens, tok_ok)
          IN /\ returned' = gm.messages
             /\ message_history' = gm.history
             /\ last' = [Event("get") EXCEPT !.compressed = gm.compressed,
                                             !.truncated = gm.truncated,
                                             !.tok_ok = tok_ok]
    /\ UNCHANGED <<system_message, appends>>
    /\ CtxFrame

\* ContextManager.clear_history
ClearHistory ==
    /\ pc = "context"
    /\ message_history # <<>>
    /\ message_history' = <<>>
    /\ returned' = <<>>
    /\ last' = Event("clear")
    /\ UNCHANGED <<system_message, appends>>
    /\ CtxFrame

CtxNext ==
    \/ SetSystemMessage \/ AddUserMessage \/ AddAssistantMessage
    \/ AddToolResult \/ GetMessages \/ ClearHistory

CtxSpec == CtxInit /\ [][CtxNext]_vars

\* ------------------------------------------- one call, with its scheduling
\* The first execute_task call on a fresh instance.  Every external call
\* (page observation, decision-maker request, confirmation prompt, browser
\* action) returns or fails, so a running call keeps taking steps.
FirstCall == StartTask /\ tasks_run = 0

FairInit == Init

FairNext == FirstCall \/ Plan \/ Act \/ Finish

\* The running call is never suspended for ever: whenever a step of the loop
\* can be taken, one eventually is.  Each of Plan, Act and Finish changes ctl,
\* and one of them is enabled exactly where CanStep holds, so weak fairness of
\* Advance on ctl is weak fairness of Plan \/ Act \/ Finish on vars.
ctl == <<pc, tool_calls, iterations>>

CanStep ==
    \/ pc = "acting"
    \/ pc = "loop" /\ LoopGuard(task_completed, current_step, max_steps) /\ iterations < IterCap
    \/ pc = "loop" /\ ~LoopGuard(task_completed, current_step, max_steps)

Advance ==
    /\ CanStep
    /\ pc' \in {"idle", "loop", "acting"}
    /\ tool_calls' \in 0..MaxCalls
    /\ iterations' \in 0..IterCap

FairSpec == FairInit /\ [][FairNext]_vars /\ WF_ctl(Advance)

\* ------------------------------------------------ a window wider than one
\* The orchestrator with the widest configured window, the gate off and a
\* budget of one step: the deque then holds more messages than one task
\* appends before its first decision-maker request.
WideInit ==
    /\ pc = "idle"
    /\ max_steps = 1
    /\ current_step = 0
    /\ task_completed = FALSE
    /\ task_result = None
    /\ enabled = FALSE
    /\ destructive_patterns = <<PatDel>>
    /\ user_confirmation_callback = FALSE
    /\ sliding_window_size = MaxWindow
    /\ max_tokens \in TokenBudgets
    /\ message_history = <<>>
    /\ system_message = NoSystem
    /\ tool_calls = 0
    /\ returned = <<>>
    /\ outcome = Outcome("none", None, "none")
    /\ tasks_run = 0
    /\ iterations = 0
    /\ appends = 0
    /\ is_initialized = TRUE
    /\ element_map = <<>>
    /\ data_ai_ids = {}
    /\ last = Event("new")

WideSpec == WideInit /\ [][Next]_vars

\* ---------------------------------------------------- page and its locators
\* Element identifiers as inject_ai_ids makes them: type, "-", counter.
IdLink0 == <<"l","i","n","k","-","0">>
IdInput0 == <<"i","n","p","u","t","-","0">>
IdButton0 == <<"b","u","t","t","o","n","-","0">>
PageIds == {IdLink0, IdInput0, IdButton0}

\* selector arguments of click, type_text and extract_text
Selectors == PageIds \cup {SelDelete, SelOk}

SelectorChars == {"[", "#", ".", ":"}
HasChar(text, chars) == \E i \in 1..Len(text) : text[i] \in chars

AttrPrefix == <<"[","d","a","t","a","-","a","i","-","i","d","=","\"">>
AttrSuffix == <<"\"","]">>

\* f'[data-ai-id="{ai_id}"]'
AttrSelector(ai_id) == AttrPrefix \o ai_id \o AttrSuffix

\* BrowserAgent._convert_to_selector
_convert_to_selector(ai_id_or_selector) ==
    IF HasChar(ai_id_or_selector, {"-"}) /\ ~HasChar(ai_id_or_selector, SelectorChars)
    THEN AttrSelector(ai_id_or_selector)
    ELSE ai_id_or_selector

\* page.locator(real_selector).first finds an element: an attribute
\* selector finds the element carrying that data-ai-id, any other selector
\* finds what the page happens to hold (other_found)
Locates(real_selector, ids, other_found) ==
    IF \E id \in PageIds : real_selector = AttrSelector(id)
    THEN \E id \in ids : real_selector = AttrSelector(id)
    ELSE other_found

\* BrowserAgent.click: wait_for(state="visible") times out (PlaywrightTimeout)
\* or element.click raises something else (done = FALSE)
click(selector, ids, other_found, visible, done) ==
    LET real_selector == _convert_to_selector(selector)
    IN [locator |-> real_selector,
        result |-> IF ~(Locates(real_selector, ids, other_found) /\ visible)
                   THEN Result(FALSE, <<"element not found or not visible", selector>>)
                   ELSE IF ~done
                   THEN Result(FALSE, <<"click error">>)
                   ELSE Result(TRUE, <<"clicked", selector>>)]

\* BrowserAgent.type_text: every exception, the timeout of wait_for
\* included, gives the same error text
type_text(selector, ids, other_found, visible, done) ==
    LET real_selector == _convert_to_selector(selector)
    IN [locator |-> real_selector,
        result |-> IF Locates(real_selector, ids, other_found) /\ visible /\ done
                   THEN Result(TRUE, <<"typed", selector>>)
                   ELSE Result(FALSE, <<"type error">>)]

\* BrowserAgent.extract_text: inner_text without a visibility wait
extract_text(selector, ids, other_found, done) ==
    LET real_selector == _convert_to_selector(selector)
    IN [locator |-> real_selector,
        result |-> IF Locates(real_selector, ids, other_found) /\ done
                   THEN Result(TRUE, <<"extracted", selector>>)
                   ELSE Result(FALSE, <<"extract error">>)]

PageInit ==
    /\ pc = "page"
    /\ max_steps = 0
    /\ current_step = 0
    /\ task_completed = FALSE
    /\ task_result = None
    /\ enabled = FALSE
    /\ destructive_patterns = <<>>
    /\ user_confirmation_callback = FALSE
    /\ sliding_window_size = 1
    /\ max_tokens \in TokenBudgets
    /\ message_history = <<>>
    /\ system_message = NoSystem
    /\ tool_calls = 0
    /\ returned = <<>>
    /\ outcome = Outcome("none", None, "none")
    /\ tasks_run = 0
    /\ iterations = 0
    /\ appends = 0
    /\ is_initialized = TRUE
    /\ element_map = <<>>
    /\ data_ai_ids = {}
    /\ last = Event("new")

PageFrame ==
    UNCHANGED <<pc, config, current_step, task_completed, task_result, message_history,
                system_message, tool_calls, returned, outcome, tasks_run, iterations,
                appends, is_initialized>>

\* PageAnalyzer.analyze_page with smart selectors: inject_ai_ids gives every
\* interactive element of the page an identifier, extract_smart_elements
\* keeps the relevant ones (visible, in the viewport, the first max_elements)
\* and rebuilds element_map from them
AnalyzePage ==
    /\ pc = "page"
    /\ \E ids \in SUBSET PageIds :
        \E relevant \in SUBSET ids :
            /\ data_ai_ids' = ids
            /\ element_map' = [id \in relevant |-> AttrSelector(id)]
    /\ last' = Event("analyze")
    /\ PageFrame

Click ==
    /\ pc = "page"
    /\ \E selector \in Selectors, other_found \in BOOLEAN, visible \in BOOLEAN, done \in BOOLEAN :
        LET r == click(selector, data_ai_ids, other_found, visible, done)
        IN last' = [Event("browser") EXCEPT !.call = Call("click", [selector |-> S(selector)]),
                                            !.browser = TRUE,
                                            !.locator = r.locator, !.result = r.result]
    /\ UNCHANGED <<element_map, data_ai_ids>>
    /\ PageFrame

TypeText ==
    /\ pc = "page"
    /\ \E selector \in Selectors, other_found \in BOOLEAN, visible \in BOOLEAN, done \in BOOLEAN :
        LET r == type_text(selector, data_ai_ids, other_found, visible, done)
        IN last' = [Event("browser") EXCEPT
                        !.call = Call("type_text", [selector |-> S(selector), text |-> S(Why)]),
                        !.browser = TRUE,
                        !.locator = r.locator, !.result = r.result]
    /\ UNCHANGED <<element_map, data_ai_ids>>
    /\ PageFrame

ExtractText ==
    /\ pc = "page"
    /\ \E selector \in Selectors, other_found \in BOOLEAN, done \in BOOLEAN :
        LET r == extract_text(selector, data_ai_ids, other_found, done)
        IN last' = [Event("browser") EXCEPT
                        !.call = Call("extract_text", [selector |-> S(selector)]),
                        !.browser = TRUE,
                        !.locator = r.locator, !.result = r.result]
    /\ UNCHANGED <<element_map, data_ai_ids>>
    /\ PageFrame

\* the distances dict of scroll
ScrollDistances == [small |-> 200, medium |-> 500, large |-> 1000, page |-> 0]

\* self.page.viewport_size["height"], 800 when the page has no viewport
ViewportHeights == {720, 800}

\* BrowserAgent.scroll: distances.get(amount, 500), the viewport height for
\* "page", negated only when direction == "up"; then window.scrollBy.  done
\* is whether the page calls went through.
scroll(direction, amount, height, done) ==
    LET base == IF amount \in DOMAIN ScrollDistances THEN ScrollDistances[amount] ELSE 500
        distance == IF amount = "page" THEN height ELSE base
        signed == IF direction = "up" THEN 0 - distance ELSE distance
    IN [performed |-> IF done THEN <<"scrollBy", signed>> ELSE <<>>,
        result |-> IF done THEN Result(TRUE, <<"scrolled", direction, amount>>)
                   ELSE Result(FALSE, <<"scroll error">>)]

\* BrowserAgent.wait: page.wait_for_timeout(seconds * 1000)
wait(seconds, done) ==
    [performed |-> IF done THEN <<"wait_for_timeout", seconds * 1000>> ELSE <<>>,
     result |-> IF done THEN Result(TRUE, <<"waited", seconds>>)
                ELSE Result(FALSE, <<"wait error">>)]

\* BrowserAgent.press_key: page.keyboard.press(key); the browser raises for a
\* name it does not know (known), and the except branch answers
press_key(key, known, done) ==
    [performed |-> IF known /\ done THEN <<"keyboard.press", key>> ELSE <<>>,
     result |-> IF known /\ done THEN Result(TRUE, <<"pressed", key>>)
                ELSE Result(FALSE, <<"press error">>)]

ScrollDirections == {"up", "down", "left"}
ScrollAmounts == {"small", "medium", "large", "page", "huge"}
WaitSeconds == {0, 1, 10, 11, 60}
ListedKeys == {"Enter", "Escape", "Tab", "Backspace", "Delete", "ArrowUp", "ArrowDown"}
\* F5 and Control+A are key names the browser accepts, Foo is not
Keys == {"Enter", "ArrowDown", "F5", "Control+A", "Foo"}
BrowserKnows(key) == key \in ListedKeys \cup {"F5", "Control+A"}

\* _call_tool's scroll branch, args["direction"] and
\* args.get("amount", "medium") handed to BrowserAgent.scroll as they came
Scroll ==
    /\ pc = "page"
    /\ \E direction \in ScrollDirections, amount \in ScrollAmounts \cup {"absent"},
          height \in ViewportHeights, done \in BOOLEAN :
        LET args == IF amount = "absent" THEN [direction |-> S(direction)]
                    ELSE [direction |-> S(direction), amount |-> S(amount)]
            r == scroll(args.direction.v, Get(args, "amount", S("medium")).v, height, done)
            d == _call_tool("scroll", args, current_step, r.result.success, FALSE, None)
        IN last' = [Event("dispatch") EXCEPT !.call = Call("scroll", args),
                                             !.dispatched = TRUE,
                                             !.browser = d.browser,
                                             !.performed = r.performed,
                                             !.result = r.result]
    /\ UNCHANGED <<element_map, data_ai_ids>>
    /\ PageFrame

\* _call_tool's wait branch: args["seconds"] handed to BrowserAgent.wait
Wait ==
    /\ pc = "page"
    /\ \E seconds \in WaitSeconds, done \in BOOLEAN :
        LET args == [seconds |-> I(seconds), reason |-> S(Why)]
            r == wait(args.seconds.v, done)
            d == _call_tool("wait", args, current_step, r.result.success, FALSE, None)
        IN last' = [Event("dispatch") EXCEPT !.call = Call("wait", args),
                                             !.dispatched = TRUE,
                                             !.browser = d.browser,
                                             !.performed = r.performed,
                                             !.result = r.result]
    /\ UNCHANGED <<element_map, data_ai_ids>>
    /\ PageFrame

\* _call_tool's press_key branch: args["key"] handed to BrowserAgent.press_key
PressKey ==
    /\ pc = "page"
    /\ \E key \in Keys, done \in BOOLEAN :
        LET args == [key |-> S(key), reason |-> S(Why)]
            r == press_key(args.key.v, BrowserKnows(key), done)
            d == _call_tool("press_key", args, current_step, r.result.success, FALSE, None)
        IN last' = [Event("dispatch") EXCEPT !.call = Call("press_key", args),
                                             !.dispatched = TRUE,
                                             !.browser = d.browser,
                                             !.performed = r.performed,
                                             !.result = r.result]
    /\ UNCHANGED <<element_map, data_ai_ids>>
    /\ PageFrame

PageNext ==
    AnalyzePage \/ Click \/ TypeText \/ ExtractText \/ Scroll \/ Wait \/ PressKey

PageSpec == PageInit /\ [][PageNext]_vars

\* ------------------------------------------------------------- terminal UI
\* TerminalUI.start after the browser is initialized: _main_loop inside
\* try/finally.  pc = "idle" is the prompt of _main_loop; "interrupted" and
\* "exiting" are the ways out of the loop, before _cleanup has run; "closed"
\* is after it.
UIInit ==
    /\ Init
    /\ max_steps = 1
    /\ enabled = FALSE
    /\ user_confirmation_callback = FALSE

\* The operator's interrupt (SIGINT).  At the prompt it is the
\* KeyboardInterrupt _main_loop catches.  While execute_task runs it reaches
\* the coroutine at the await it is suspended in, as an exception that is not
\* an Exception (CancelledError or KeyboardInterrupt), so neither the except
\* clause of the loop nor the one of _execute_task catches it and no tool
\* result is appended: at = "planning" in the page observation or the
\* decision-maker request of the step that has begun, at = "action" in the
\* browser call of the tool call the for loop has reached.
Interrupt ==
    /\ pc \in {"idle", "loop", "acting"}
    /\ pc' = "interrupted"
    /\ \/ /\ pc = "idle"
          /\ last' = [Event("interrupt") EXCEPT !.at = "prompt"]
          /\ UNCHANGED <<current_step, outcome>>
       \/ /\ pc = "loop"
          /\ LoopGuard(task_completed, current_step, max_steps)
          /\ current_step' = StepInc(current_step)
          /\ outcome' = Outcome("raised", None, "interrupt")
          /\ last' = [Event("interrupt") EXCEPT !.at = "planning"]
       \/ /\ pc = "acting"
          /\ \E call \in ToolCalls :
                LET x == _execute_tool_call(call, enabled, destructive_patterns,
                                            user_confirmation_callback, "yes", TRUE,
                                            message_history, sliding_window_size,
                                            tasks_run, current_step, task_completed,
                                            task_result)
                IN /\ x.browser
                   /\ last' = [Event("interrupt") EXCEPT !.at = "action", !.call = call,
                                                         !.verdict = x.verdict,
                                                         !.checked = x.checked,
                                                         !.dispatched = TRUE,
                                                         !.browser = TRUE]
          /\ outcome' = Outcome("raised", None, "interrupt")
          /\ UNCHANGED current_step
    /\ UNCHANGED <<config, browser_state, task_completed, task_result, message_history,
                   system_message, tool_calls, returned, tasks_run, iterations, appends>>

\* "exit", "quit" or "выход" at the prompt: break
Quit ==
    /\ pc = "idle"
    /\ pc' = "exiting"
    /\ last' = Event("quit")
    /\ UNCHANGED <<config, browser_state, current_step, task_completed, task_result,
                   message_history, system_message, tool_calls, returned, outcome,
                   tasks_run, iterations, appends>>

\* the finally clause of start: TerminalUI._cleanup, BrowserAutomation.cleanup
Cleanup ==
    /\ pc \in {"interrupted", "exiting"}
    /\ pc' = "closed"
    /\ is_initialized' = FALSE
    /\ last' = [last EXCEPT !.ev = "cleanup"]
    /\ UNCHANGED <<config, element_map, data_ai_ids, current_step, task_completed,
                   task_result, message_history, system_message, tool_calls, returned,
                   outcome, tasks_run, iterations, appends>>

UINext == Next \/ Interrupt \/ Quit \/ Cleanup

UISpec == UIInit /\ [][UINext]_vars

\* ------------------------------------------------------ security gate alone
PatDelCap == <<"D","e","l">>
SelCvvCap == <<"C","V","V">>
SelCredential == <<"c","r","e","d","e","n","t","i","a","l">>

\* patterns add_destructive_pattern is called with
GatePatterns == {PatDel, PatDelCap}

\* names and arguments check_action is called with
GateNames == DeclaredTools \cup {"hover"}
GateTexts == {SelOk, SelDelete, PatDel, SelCvv, SelCvvCap, SelCredential}
GateArgs ==
    {[selector |-> S(s), reason |-> S(r), text |-> S(t), url |-> S(s)] :
        s \in GateTexts, r \in {Why, SelDelete}, t \in {Why, SelCvv, PatDel}}
    \cup {[selector |-> I(7), reason |-> S(PatDel), text |-> I(7), url |-> S(PatDel)]}

\* SecurityAgent.add_destructive_pattern
add_destructive_pattern(patterns, pattern) ==
    IF \E i \in 1..Len(patterns) : patterns[i] = pattern
    THEN patterns
    ELSE Append(patterns, pattern)

\* SecurityAgent.__init__ with the configured switch and an empty or a
\* one-pattern list; the callback is set or not
GateInit ==
    /\ pc = "gate"
    /\ max_steps = 0
    /\ current_step = 0
    /\ task_completed = FALSE
    /\ task_result = None
    /\ enabled \in BOOLEAN
    /\ destructive_patterns \in {<<>>, <<PatDel>>}
    /\ user_confirmation_callback \in BOOLEAN
    /\ sliding_window_size = 1
    /\ max_tokens \in TokenBudgets
    /\ message_history = <<>>
    /\ system_message = NoSystem
    /\ tool_calls = 0
    /\ returned = <<>>
    /\ outcome = Outcome("none", None, "none")
    /\ tasks_run = 0
    /\ iterations = 0
    /\ appends = 0
    /\ is_initialized = TRUE
    /\ element_map = <<>>
    /\ data_ai_ids = {}
    /\ last = Event("new")

GateFrame ==
    UNCHANGED <<pc, max_steps, enabled, user_confirmation_callback, sliding_window_size,
                max_tokens, browser_state, current_step, task_completed, task_result,
                message_history, system_message, tool_calls, returned, outcome,
                tasks_run, iterations, appends>>

AddDestructivePattern ==
    /\ pc = "gate"
    /\ \E pattern \in GatePatterns :
          destructive_patterns' = add_destructive_pattern(destructive_patterns, pattern)
    /\ last' = Event("add pattern")
    /\ GateFrame

CheckAction ==
    /\ pc = "gate"
    /\ \E name \in GateNames, args \in GateArgs :
        \E answer \in Answers(Call(name, args), enabled, destructive_patterns,
                              user_confirmation_callback) :
            last' = [Event("check") EXCEPT
                        !.call = Call(name, args),
                        !.checked = TRUE,
                        !.verdict = check_action(name, args, enabled, destructive_patterns,
                                                 user_confirmation_callback, answer)]
    /\ UNCHANGED destructive_patterns
    /\ GateFrame

GateNext == AddDestructivePattern \/ CheckAction

GateSpec == GateInit /\ [][GateNext]_vars

\* ------------------------------------- execute_task called while one runs
\* execute_task is a coroutine of the one OrchestratorAgent instance and has
\* no test of a call already running.  Here every call has its own position
\* (pc[c]), its own outcome and its own count of loop passes (iterations[c]);
\* current_step, task_completed, task_result and the context manager are the
\* instance's.  A call runs without interruption from one suspending await
\* to the next: get_page_info ("page"), chat_completion ("llm") and the
\* browser method inside _call_tool ("browser").  The gate is disabled, so
\* check_action returns without suspending.
Calls == 1..MaxTasks

\* the length of a planning prompt for a small page
ShortPlanLen == 400

ClickOk == Call("click", [selector |-> S(SelOk), reason |-> S(Why)])
TaskComplete == Call("task_complete", [result |-> S(SelOk), success |-> B(TRUE)])

\* the while test and what follows it without an await: the increment up to
\* await get_page_info, or the return statements after the loop
LoopHead(completed, recorded, step, budget) ==
    IF LoopGuard(completed, step, budget)
    THEN [pc |-> "page", current_step |-> StepInc(step), passes |-> 1,
          outcome |-> Outcome("none", None, "none")]
    ELSE [pc |-> "done", current_step |-> step, passes |-> 0,
          outcome |-> Outcome("returned", FinalResult(completed, recorded, step, budget),
                              "none")]

ReentrantInit ==
    /\ pc = [c \in Calls |-> "new"]
    /\ max_steps = MaxBudget
    /\ current_step = 0
    /\ task_completed = FALSE
    /\ task_result = None
    /\ enabled = FALSE
    /\ destructive_patterns = <<>>
    /\ user_confirmation_callback = FALSE
    /\ sliding_window_size = 1
    /\ max_tokens \in TokenBudgets
    /\ message_history = <<>>
    /\ system_message = NoSystem
    /\ tool_calls = 0
    /\ returned = <<>>
    /\ outcome = [c \in Calls |-> Outcome("none", None, "none")]
    /\ tasks_run = 0
    /\ iterations = [c \in Calls |-> 0]
    /\ appends = 0
    /\ is_initialized = TRUE
    /\ element_map = <<>>
    /\ data_ai_ids = {}
    /\ last = Event("new")

ReentrantFrame == UNCHANGED <<config, browser_state, tool_calls, returned, appends>>

\* what a call does with the loop head it reaches
Continue(c, head) ==
    /\ current_step' = head.current_step
    /\ pc' = [pc EXCEPT ![c] = head.pc]
    /\ outcome' = [outcome EXCEPT ![c] = head.outcome]
    /\ iterations' = [iterations EXCEPT ![c] = @ + head.passes]

\* execute_task(task) is called: the reset, the two seeding calls, the first
\* loop test
Enter(c) ==
    /\ pc[c] = "new"
    /\ tasks_run' = tasks_run + 1
    /\ LET fresh == ResetTaskState(task_completed, task_result, current_step)
       IN /\ task_completed' = fresh.task_completed
          /\ task_result' = fresh.task_result
          /\ Continue(c, LoopHead(fresh.task_completed, fresh.task_result,
                                  fresh.current_step, max_steps))
    /\ system_message' = SystemPrompt
    /\ message_history' = add_user_message(message_history, <<"task">>, TextLen.task,
                                           sliding_window_size, c)
    /\ last' = Event("enter")
    /\ ReentrantFrame

\* get_page_info returned: the planning prompt is appended, get_messages is
\* read and chat_completion is awaited
Observe(c) ==
    /\ pc[c] = "page"
    /\ \E plen \in {ShortPlanLen} :
        LET h1 == add_user_message(message_history, <<"planning">>, plen,
                                   sliding_window_size, c)
            gm == get_messages(h1, system_message, sliding_window_size, max_tokens, TRUE)
        IN /\ message_history' = gm.history
           /\ last' = [Event("observe") EXCEPT !.request = gm.messages]
    /\ pc' = [pc EXCEPT ![c] = "llm"]
    /\ UNCHANGED <<current_step, task_completed, task_result, system_message, outcome,
                   tasks_run, iterations>>
    /\ ReentrantFrame

\* chat_completion returned a response with no tool call, with a
\* task_complete or with a click: _process_llm_response up to the next
\* suspending await
Decide(c) ==
    /\ pc[c] = "llm"
    /\ \E call \in {NoCall, TaskComplete, ClickOk} :
        LET response == [content |-> TRUE, tool_calls |-> IF call = NoCall THEN 0 ELSE 1]
            p == _process_llm_response(message_history, response, sliding_window_size, c)
            x == _execute_tool_call(call, enabled, destructive_patterns,
                                    user_confirmation_callback, "yes", TRUE, p.history,
                                    sliding_window_size, c, current_step,
                                    task_completed, task_result)
        IN IF call = ClickOk
           THEN /\ message_history' = p.history
                /\ pc' = [pc EXCEPT ![c] = "browser"]
                /\ UNCHANGED <<current_step, task_completed, task_result, outcome, iterations>>
           ELSE IF call = TaskComplete
           THEN /\ message_history' = x.history
                /\ task_completed' = x.task_completed
                /\ task_result' = x.task_result
                /\ Continue(c, LoopHead(x.task_completed, x.task_result,
                                        current_step, max_steps))
           ELSE /\ message_history' = p.history
                /\ UNCHANGED <<task_completed, task_result>>
                /\ Continue(c, LoopHead(task_completed, task_result,
                                        current_step, max_steps))
    /\ last' = Event("decide")
    /\ UNCHANGED <<system_message, tasks_run>>
    /\ ReentrantFrame

\* the browser method returned: the tool result is appended and the loop
\* test follows
BrowserReturns(c) ==
    /\ pc[c] = "browser"
    /\ \E browser_ok \in BOOLEAN :
        LET x == _execute_tool_call(ClickOk, enabled, destructive_patterns,
                                    user_confirmation_callback, "yes", browser_ok,
                                    message_history, sliding_window_size, c,
                                    current_step, task_completed, task_result)
        IN message_history' = x.history
    /\ UNCHANGED <<task_completed, task_result>>
    /\ Continue(c, LoopHead(task_completed, task_result, current_step, max_steps))
    /\ last' = Event("browser returns")
    /\ UNCHANGED <<system_message, tasks_run>>
    /\ ReentrantFrame

ReentrantNext == \E c \in Calls : Enter(c) \/ Observe(c) \/ Decide(c) \/ BrowserReturns(c)

ReentrantSpec == ReentrantInit /\ [][ReentrantNext]_vars

\* ------------------------------------------------------------------ claims
Running == pc # "idle"
Returned == pc = "idle" /\ outcome.kind = "returned"
Acted == last.ev = "act"
LastMessage == message_history[Len(message_history)]

\* the tool-result message _execute_tool_call appends for the last tool call
LastToolMessage ==
    Message("user", "tool", "TOOL RESULT",
            <<last.call.name, json_dumps(last.result)>>, TextLen.tool_result, tasks_run)

\* C1: the step counter stays within 0..max_steps in every state of
\* execute_task, and a returned TaskResult has steps_taken <= max_steps
C1_StepWithinBudget ==
    /\ 0 <= current_step
    /\ current_step <= max_steps
    /\ outcome.kind = "returned" => outcome.result.steps_taken <= max_steps

C1_Witness ==
    /\ Returned
    /\ max_steps = MaxBudget
    /\ outcome.result.steps_taken = max_steps

\* C2: a running execute_task call ends with a returned TaskResult, and its
\* loop body is entered at most max_steps times
C2_Terminates ==
    /\ [](iterations <= max_steps)
    /\ (Running ~> Returned)

C2_Witness ==
    /\ Returned
    /\ iterations = max_steps
    /\ max_steps = MaxBudget
    /\ last.ev = "finish"

\* C3: execute_task never ends with an exception: whatever fails, the call
\* ends with a returned TaskResult
C3_NeverRaises == outcome.kind # "raised"

\* C4: the completion flag is set exactly by a dispatched task_complete, and
\* once it is set the running call dispatches no further action and makes
\* no further decision-maker request
C4_DoneHalts ==
    [][/\ (~task_completed /\ task_completed') =>
              (last'.ev = "act" /\ last'.call.name = "task_complete")
       /\ (last'.ev = "act" /\ last'.dispatched /\ last'.call.name = "task_complete")
              => task_completed'
       /\ (Running /\ task_completed) =>
              (last'.ev # "plan" /\ ~(last'.ev = "act" /\ last'.dispatched))]_vars

\* C5 as stated: with a budget of at least 1 and no completion action, the
\* returned TaskResult is the step-limit failure with steps_taken = max_steps
C5_StepLimitAlways ==
    (Returned /\ max_steps >= 1 /\ ~task_completed) =>
        /\ outcome.result.success = FALSE
        /\ outcome.result.error = "step limit"
        /\ outcome.result.steps_taken = max_steps

\* C5 amended: with a budget of at least 1 and no completion action, the
\* returned TaskResult has success = false; it is the step-limit failure
\* with steps_taken = max_steps unless a recovery attempt failed, and then
\* it carries the underlying error and the step in which recovery failed
C5_StepLimitUnlessRecoveryFails ==
    (Returned /\ max_steps >= 1 /\ ~task_completed) =>
        /\ outcome.result.success = FALSE
        /\ IF last.ev = "finish"
           THEN /\ outcome.result.error = "step limit"
                /\ outcome.result.steps_taken = max_steps
           ELSE /\ ~last.recovered
                /\ outcome.result.error = last.error
                /\ outcome.result.error \notin {"none", "step limit"}
                /\ outcome.result.steps_taken = current_step
                /\ current_step >= 1
                /\ current_step <= max_steps

C5_Witness ==
    /\ Returned
    /\ ~task_completed
    /\ max_steps >= 1
    /\ last.ev = "finish"
    /\ outcome.result.error = "step limit"
    /\ outcome.result.steps_taken = max_steps

\* the gate's classifier flags the last tool call
Flagged ==
    _is_destructive_action(last.call.name, last.call.args, destructive_patterns).destructive

\* C6: with the gate enabled and no confirmation callback, a tool call the
\* classifier flags gets safe = false and requires_confirmation = true and
\* reaches neither _call_tool nor the browser
C6_FlaggedNeverExecuted ==
    (Acted /\ enabled /\ ~user_confirmation_callback /\ Flagged) =>
        /\ last.checked
        /\ ~last.verdict.safe
        /\ last.verdict.requires_confirmation
        /\ ~last.verdict.asked
        /\ ~last.dispatched
        /\ ~last.browser

C6_Witness ==
    /\ Acted /\ enabled /\ ~user_confirmation_callback /\ Flagged
    /\ last.call.name = "type_text"
    /\ last.appended

\* the last tool call is a click whose selector holds a configured pattern
ClickOnDestructive ==
    /\ Acted
    /\ last.call.name = "click"
    /\ "selector" \in DOMAIN last.call.args
    /\ last.call.args.selector.t = "str"
    /\ \E i \in 1..Len(destructive_patterns) :
          Contains(destructive_patterns[i], lower(last.call.args.selector.v))

\* C7: with the gate on and no confirmation callback, a click on a selector
\* holding a destructive pattern appends a tool result with success = false
\* and requires_user_confirmation = true, and the call goes on: no
\* recovery, no return, and the next step starts if budget remains
C7_RejectedClickContinues ==
    (ClickOnDestructive /\ enabled /\ ~user_confirmation_callback) =>
        /\ last.result.success = FALSE
        /\ last.result.requires_user_confirmation = TRUE
        /\ last.appended
        /\ LastMessage = LastToolMessage
        /\ ~last.recovered
        /\ last.error = "none"
        /\ Running
        /\ outcome.kind = "none"
        /\ (tool_calls = 0 /\ ~task_completed /\ current_step < max_steps) => ENABLED Plan

C7_Witness ==
    /\ ClickOnDestructive /\ enabled /\ ~user_confirmation_callback
    /\ tool_calls = 0
    /\ current_step < max_steps
    /\ LastMessage.body = <<"click", <<FALSE, TRUE, FALSE>> >>

\* C8: a tool call whose name is not a declared tool is dispatched, answers
\* success = false with the unknown-tool error without raising, the result
\* is appended to the buffer and the call goes on
C8_UnknownToolContinues ==
    (Acted /\ last.call.name \notin DeclaredTools) =>
        /\ last.dispatched
        /\ ~last.browser
        /\ last.result.success = FALSE
        /\ last.result.msg = <<"unknown tool">>
        /\ last.appended
        /\ LastMessage = LastToolMessage
        /\ ~last.recovered
        /\ last.error = "none"
        /\ Running
        /\ outcome.kind = "none"
        /\ (tool_calls = 0 /\ ~task_completed /\ current_step < max_steps) => ENABLED Plan

C8_Witness ==
    /\ Acted /\ last.call.name \notin DeclaredTools
    /\ enabled
    /\ tool_calls = 0
    /\ current_step < max_steps
    /\ LastMessage.body = <<"hover", <<FALSE, FALSE, FALSE>> >>

\* C9: a dispatched tool call of a declared tool that lacks an argument its
\* schema requires answers success = false and does nothing: the browser
\* is not invoked and the task is not marked complete
C9_MissingArgumentRejected ==
    (/\ Acted /\ last.dispatched
     /\ last.call.name \in DeclaredTools
     /\ ~(Required(last.call.name) \subseteq DOMAIN last.call.args)) =>
        /\ last.result.success = FALSE
        /\ ~last.browser
        /\ last.call.name = "task_complete" => ~task_completed

RangeOf(seq) == {seq[i] : i \in 1..Len(seq)}

\* C10: a message appended by add_tool_result keeps the content it was
\* appended with, in the stored history and in every list get_messages
\* returns: it is never truncated
C10_ToolResultsIntact ==
    \A m \in RangeOf(returned) \cup RangeOf(message_history) :
        m.kind = "tool" =>
            /\ m.len = m.olen
            /\ ~m.cut
            /\ m.head = "TOOL RESULT"

\* the truncation pass ran over a list that holds a tool result longer than
\* the threshold next to a message it did truncate
C10_Witness ==
    /\ last.ev = "get"
    /\ last.truncated
    /\ \E m \in RangeOf(returned) : m.kind = "tool" /\ m.len > TruncateThreshold
    /\ \E m \in RangeOf(returned) : m.cut

\* C11: when get_messages has just answered for a buffer over the budget, a
\* second get_messages call with no append in between returns the same
\* message sequence
C11_SecondGetSame ==
    [][(last.ev = "get" /\ last.compressed /\ last'.ev = "get") =>
           returned' = returned]_vars

\* C12: the list get_messages returns has an estimated token total within
\* the configured budget (under the tokenizer's count or the fallback's)
C12_WithinBudget ==
    last.ev = "get" =>
        \E tok_ok \in BOOLEAN : _count_messages_tokens(returned, tok_ok) <= max_tokens

\* C13: a dispatched task_complete in step k records a TaskResult with the
\* action's success flag and result text and steps_taken = k, and when the
\* loop then ends execute_task returns that record, also for k = max_steps
C13_CompletionReturned ==
    /\ (Acted /\ last.dispatched /\ last.call.name = "task_complete") =>
          /\ task_completed
          /\ task_result = TaskResult(Get(last.call.args, "success", B(TRUE)).v,
                                      Get(last.call.args, "result", S(<<>>)).v,
                                      current_step, "none")
          /\ 1 <= current_step /\ current_step <= max_steps
    /\ (last.ev = "finish" /\ task_completed) =>
          /\ outcome.kind = "returned"
          /\ outcome.result = task_result
          /\ outcome.result.steps_taken = current_step
          /\ outcome.result.error = "none"

\* completion in the last step the budget allows, with success = false
C13_Witness ==
    /\ last.ev = "finish"
    /\ task_completed
    /\ max_steps = MaxBudget
    /\ outcome.result.steps_taken = max_steps
    /\ ~outcome.result.success

\* C14: the first decision-maker request of an execute_task call holds no
\* user, assistant or tool-result message appended during an earlier call
\* on the same instance
C14_FirstRequestFresh ==
    (last.ev = "plan" /\ iterations = 1) =>
        \A m \in RangeOf(last.request) : m.role # "system" => m.task = tasks_run

\* C15: with the gate disabled check_action answers safe without
\* requires_confirmation for every action, the confirmation callback is not
\* called, and _execute_tool_call dispatches the action
C15_GateOffDispatches ==
    ~enabled =>
        /\ \A call \in ToolCalls, answer \in {"yes", "no", "raise"} :
              LET v == check_action(call.name, call.args, enabled, destructive_patterns,
                                    user_confirmation_callback, answer)
              IN v.safe /\ ~v.requires_confirmation /\ ~v.asked /\ ~v.raised
        /\ Acted =>
              /\ last.dispatched
              /\ ~last.verdict.asked
              /\ last.verdict.safe /\ ~last.verdict.requires_confirmation

\* gate off, a callback registered, and a click the classifier would flag
\* reached the browser
C15_Witness ==
    /\ ~enabled
    /\ user_confirmation_callback
    /\ Acted
    /\ last.call = Call("click", [selector |-> S(SelDelete), reason |-> S(Why)])
    /\ last.dispatched
    /\ last.browser

\* C16: with the gate on and a callback set, every flagged tool call has the
\* callback called for it, whatever was confirmed before, and reaches
\* _call_tool only when that call of the callback answered yes
C16_AskedEveryTime ==
    (Acted /\ enabled /\ user_confirmation_callback /\ Flagged) =>
        /\ last.checked
        /\ last.verdict.asked
        /\ last.dispatched => (last.verdict.safe /\ ~last.verdict.raised)
        /\ last.browser => last.dispatched

\* the one flagged type_text action was confirmed and executed (its tool
\* result is the older stored message), then issued again in the same task:
\* the callback was asked again and answered no
C16_Witness ==
    /\ Acted /\ enabled /\ user_confirmation_callback /\ Flagged
    /\ last.call.name = "type_text"
    /\ last.verdict.asked
    /\ ~last.verdict.safe
    /\ ~last.dispatched
    /\ Len(message_history) = 2
    /\ message_history[1].kind = "tool"
    /\ message_history[1].body = <<"type_text", <<TRUE, FALSE, FALSE>>>>
    /\ message_history[1].task = tasks_run

\* the confirmation callback was called for the last tool call and said no
Refused ==
    /\ Acted
    /\ last.verdict.asked
    /\ ~last.verdict.raised
    /\ ~last.verdict.safe

\* C17: a negative answer of the confirmation callback gives the verdict
\* safe = false, requires_confirmation = false; the action is not executed,
\* a tool result with success = false, the rejection reason and no
\* requires_user_confirmation is appended, and the call goes on
C17_RefusedContinues ==
    /\ (enabled /\ user_confirmation_callback) =>
          \A call \in ToolCalls :
              _is_destructive_action(call.name, call.args, destructive_patterns).destructive =>
                  check_action(call.name, call.args, enabled, destructive_patterns,
                               user_confirmation_callback, "no")
                      = Verdict(FALSE, <<"rejected by user">>, FALSE, TRUE)
    /\ Refused =>
          /\ Flagged
          /\ ~last.verdict.requires_confirmation
          /\ ~last.dispatched
          /\ ~last.browser
          /\ last.result = Result(FALSE, <<"rejected by user">>)
          /\ ~last.result.requires_user_confirmation
          /\ last.appended
          /\ LastMessage = LastToolMessage
          /\ ~last.recovered
          /\ last.error = "none"
          /\ Running
          /\ outcome.kind = "none"
          /\ (tool_calls = 0 /\ ~task_completed /\ current_step < max_steps) => ENABLED Plan

C17_Witness ==
    /\ Refused
    /\ last.call.name = "click"
    /\ tool_calls = 0
    /\ current_step < max_steps
    /\ LastMessage.body = <<"click", <<FALSE, FALSE, FALSE>> >>

\* C18: an ask_user tool call is dispatched without touching the browser,
\* answers success = false with user_input_required, and its result is
\* appended; the completion flag and the recorded result stay as they were,
\* nothing is returned or recovered, and the for loop goes to the next tool
\* call or back to the loop test, where the next step starts if the task is
\* not complete and budget remains
C18_AskUserContinues ==
    /\ [][(last'.ev = "act" /\ last'.call.name = "ask_user") =>
             /\ last'.dispatched
             /\ ~last'.browser
             /\ ~last'.result.success
             /\ last'.result.user_input_required
             /\ last'.appended
             /\ message_history'[Len(message_history')].body
                    = <<"ask_user", <<FALSE, FALSE, TRUE>> >>
             /\ task_completed' = task_completed
             /\ task_result' = task_result
             /\ outcome' = outcome
             /\ last'.error = "none"
             /\ ~last'.recovered
             /\ tool_calls' = tool_calls - 1
             /\ pc' = IF tool_calls' > 0 THEN "acting" ELSE "loop"]_vars
    /\ []((Acted /\ last.call.name = "ask_user" /\ tool_calls = 0
           /\ ~task_completed /\ current_step < max_steps) => ENABLED Plan)

\* ask_user was the first of two tool calls of a response, with the gate on
C18_Witness ==
    /\ Acted
    /\ last.call.name = "ask_user"
    /\ enabled
    /\ last.result.user_input_required
    /\ pc = "acting"
    /\ tool_calls = 1
    /\ ~task_completed

\* the position of a message of the context-manager specification among
\* the appends made
AppendNo(m) == IF m.kind = "tool" THEN m.body[2][1] ELSE m.body[1]

\* C19: a list get_messages returns holds at most one system message, which
\* is then its first element (and is there whenever one is set), and its
\* other messages stand in the order they were appended
C19_SystemFirstInOrder ==
    last.ev = "get" =>
        /\ \A i \in 1..Len(returned) : returned[i].role = "system" => i = 1
        /\ system_message.len > 0 => (returned # <<>> /\ returned[1].role = "system")
        /\ \A i, j \in 1..Len(returned) :
              (i < j /\ returned[i].role # "system") =>
                  AppendNo(returned[i]) < AppendNo(returned[j])

\* a compressed list: the system message and the two most recent messages
C19_Witness ==
    /\ last.ev = "get"
    /\ last.compressed
    /\ Len(returned) = 3
    /\ returned[1].role = "system"
    /\ Len(message_history) > 2

\* C20: the tool calls of a response are handled one after the other: when
\* the next one is checked or executed, the tool result of the one before
\* it is already the newest stored message, and its own result is appended
\* behind it
C20_ResultsInOrder ==
    [][(Acted /\ last.appended /\ last'.ev = "act") =>
          /\ LastMessage = LastToolMessage
          /\ last'.appended =>
                message_history' = DequeAppend(message_history, LastToolMessage',
                                               sliding_window_size)]_vars

\* two tool calls of one response, for different tools: both results are
\* stored, the first before the second
C20_Witness ==
    /\ Acted
    /\ last.appended
    /\ tool_calls = 0
    /\ Len(message_history) = 2
    /\ message_history[2] = LastToolMessage
    /\ message_history[1].kind = "tool"
    /\ message_history[1].task = tasks_run
    /\ message_history[1].body[1] = "navigate"
    /\ last.call.name = "task_complete"


\* the tool results at the end of a stored history: the messages add_tool_result
\* appended since the last planning or recovery message
RECURSIVE TrailingResults(_)
TrailingResults(history) ==
    IF history = <<>> \/ history[Len(history)].kind # "tool"
    THEN {}
    ELSE {history[Len(history)]} \cup TrailingResults(SubSeq(history, 1, Len(history) - 1))

\* C21: every tool result the acting phase of a step left in the history is in
\* the list of messages the decision-maker is asked with in the next step
C21_NextPlanSeesResults ==
    [][(last.ev = "act" /\ last'.ev = "plan" /\ last'.request # <<>>)
          => TrailingResults(message_history) \subseteq RangeOf(last'.request)]_vars


\* the selector argument of the last browser call
LastSelector == last.call.args.selector.v

\* the selector is an element identifier (type-number) that
\* element_map does not hold
UnresolvedId ==
    /\ last.ev = "browser"
    /\ last.call.name \in {"click", "type_text", "extract_text"}
    /\ HasChar(LastSelector, {"-"}) /\ ~HasChar(LastSelector, SelectorChars)
    /\ LastSelector \notin DOMAIN element_map

\* C22: click, type_text and extract_text on an element identifier that
\* element_map does not resolve fail with the not-found error, and the
\* identifier itself is not what the browser is asked to locate
C22_UnresolvedIdNotFound ==
    UnresolvedId =>
        /\ ~last.result.success
        /\ last.result.msg[1] = "element not found or not visible"
        /\ last.locator # LastSelector


\* C23: an operator interrupt never ends the task while a tool call is being
\* executed (it takes effect at the prompt or between the steps of the loop)
C23_InterruptBetweenSteps ==
    last.ev = "interrupt" => last.at # "action"


\* C24: the step counter equals the number of loop bodies the current call
\* has entered: each iteration adds one to it, however many tool calls the
\* response held and whether or not the iteration ended in recovery, and
\* nothing else changes it
C24_OneStepPerIteration == current_step = iterations

C24_Witness ==
    /\ pc = "loop"
    /\ iterations = 2
    /\ current_step = 2
    /\ last.ev = "act"
    /\ last.recovered


\* the iteration ended in the except branch of the loop
Failed == last.ev \in {"plan", "act"} /\ last.error # "none"

\* C25: an error raised in the planning or the acting part of a step whose
\* recovery message could be appended leaves the call running at the loop
\* test, with the recovery user message (made from the error and the step)
\* as the last message and the step counter as the iteration left it
C25_ErrorRecovered ==
    (Failed /\ last.recovered) =>
        /\ pc = "loop"
        /\ outcome.kind = "none"
        /\ LastMessage = Message("user", "user", "text",
                                 <<"recovery", last.error, current_step>>,
                                 TextLen.recovery, tasks_run)
        /\ current_step = iterations
        /\ current_step >= 1
        /\ LoopGuard(task_completed, current_step, max_steps) => ENABLED Plan

C25_Witness ==
    /\ Failed
    /\ last.recovered
    /\ last.error = "llm error"
    /\ current_step = 1
    /\ max_steps = MaxBudget


\* C26: when the recovery message cannot be appended the call returns at
\* once: success = false, steps_taken = the current step, error = the text of
\* the error that failed the step; the history is as the failed step left it
\* and the loop makes no further request
C26_FailedRecoveryReturns ==
    (Failed /\ ~last.recovered) =>
        /\ pc = "idle"
        /\ outcome = Outcome("returned",
                             TaskResult(FALSE, <<>>, current_step, last.error), "none")
        /\ current_step = iterations
        /\ ~ENABLED Plan
        /\ \A i \in 1..Len(message_history) :
              message_history[i].body[1] # "recovery"
                 \/ message_history[i].body[3] < current_step
                 \/ message_history[i].task < tasks_run

C26_Witness ==
    /\ Failed
    /\ ~last.recovered
    /\ last.ev = "act"
    /\ last.error = "security error"
    /\ current_step < max_steps


\* the decision-maker answered the request of this step without tool calls
NoToolCalls == last.ev = "plan" /\ last.error = "none" /\ tool_calls = 0

\* C27: a response without tool calls uses up its step and puts control back
\* at the loop test with nothing but the planning prompt, and the text of
\* the response if it had one, appended: no tool result, no recovery message
C27_NoCallsNextStep ==
    NoToolCalls =>
        /\ pc = "loop"
        /\ ~last.recovered
        /\ current_step = iterations
        /\ current_step >= 1
        /\ LET n == Len(message_history)
               m == IF LastMessage.kind = "assistant" THEN message_history[n - 1]
                    ELSE LastMessage
           IN m.kind = "user" /\ m.body = <<"planning">> /\ m.task = tasks_run
        /\ LoopGuard(task_completed, current_step, max_steps) => ENABLED Plan

C27_Witness ==
    /\ NoToolCalls
    /\ current_step = 1
    /\ max_steps = MaxBudget
    /\ LastMessage.kind = "assistant"


\* C28: the stored history never holds more than 2 * sliding_window_size
\* messages, they are consecutive appends in append order ending with the
\* newest one, and an append keeps what was stored, dropping the oldest
\* message only when 2 * sliding_window_size were stored
C28_RecentInOrder ==
    /\ [](/\ Len(message_history) <= 2 * sliding_window_size
          /\ \A i \in 1..(Len(message_history) - 1) :
                AppendNo(message_history[i + 1]) = AppendNo(message_history[i]) + 1
          /\ message_history # <<>> => AppendNo(LastMessage) = appends)
    /\ [][last'.ev = "append" =>
            LET kept == IF Len(message_history) = 2 * sliding_window_size
                        THEN Tail(message_history) ELSE message_history
            IN /\ Len(message_history') = Len(kept) + 1
               /\ SubSeq(message_history', 1, Len(kept)) = kept
               /\ AppendNo(message_history'[Len(message_history')]) = appends']_vars

\* an append to a full deque has dropped the oldest message
C28_Witness ==
    /\ last.ev = "append"
    /\ sliding_window_size = 1
    /\ appends = 3
    /\ Len(message_history) = 2
    /\ AppendNo(message_history[1]) = 2


\* the same stored message, whatever was done to its text
SameMessage(a, b) ==
    [a EXCEPT !.len = 0, !.cut = FALSE] = [b EXCEPT !.len = 0, !.cut = FALSE]

SameMessages(s, t) ==
    Len(s) = Len(t) /\ \A i \in 1..Len(s) : SameMessage(s[i], t[i])

\* C29: get_messages on a buffer whose estimate is over the budget returns
\* the system message, if one is set, and then the last
\* min(sliding_window_size, n) of the n stored messages in their order; on a
\* buffer within the budget it returns the system message, if one is set,
\* and then every stored message
C29_WindowOrAll ==
    [][last'.ev = "get" =>
          LET sys == IF system_message.len > 0 THEN <<system_message>> ELSE <<>>
              all == sys \o message_history
          IN \E tok_ok \in BOOLEAN :
                IF _count_messages_tokens(all, tok_ok) > max_tokens
                THEN LET n == Len(message_history)
                         k == IF n < sliding_window_size THEN n ELSE sliding_window_size
                     IN /\ last'.compressed
                        /\ SameMessages(returned',
                                        sys \o SubSeq(message_history, n - k + 1, n))
                ELSE /\ ~last'.compressed
                     /\ returned' = all]_vars

\* a compressed list that left stored messages out
C29_Witness ==
    /\ last.ev = "get"
    /\ last.compressed
    /\ Len(message_history) > sliding_window_size
    /\ Len(returned) = sliding_window_size + (IF system_message.len > 0 THEN 1 ELSE 0)
    /\ returned[Len(returned)].body = LastMessage.body


\* What a get_messages step returns, message by message, if the truncation
\* pass runs exactly when the re-sliced list is still over the budget and
\* shortens the long messages that are not exempt to keep characters plus
\* the marker, leaving every other message as it was.
TruncationRule(Exempt(_), keep) ==
    last'.ev = "get" =>
        LET sys == IF system_message.len > 0 THEN <<system_message>> ELSE <<>>
            all == sys \o message_history
            n == Len(message_history)
            k == IF n < sliding_window_size THEN n ELSE sliding_window_size
            sliced == sys \o SubSeq(message_history, n - k + 1, n)
        IN \E tok_ok \in BOOLEAN :
              LET over == _count_messages_tokens(all, tok_ok) > max_tokens
                  still == over /\ _count_messages_tokens(sliced, tok_ok) > max_tokens
                  before == IF over THEN sliced ELSE all
              IN /\ last'.truncated = still
                 /\ Len(returned') = Len(before)
                 /\ \A i \in 1..Len(before) :
                       returned'[i] =
                          IF /\ still
                             /\ before[i].role # "system"
                             /\ ~Exempt(before[i])
                             /\ before[i].len > TruncateThreshold
                          THEN [before[i] EXCEPT !.len = keep + TruncateMarkerLen,
                                                 !.cut = TRUE]
                          ELSE before[i]

IsToolResult(m) == m.kind = "tool"
StartsWithToolResult(m) == m.head = "TOOL RESULT"

\* C30: only when the re-sliced list is still over the budget, every
\* non-system message in it that is not a tool result and is longer than the
\* threshold is cut to the threshold plus the marker; all others are unchanged
C30_CutToThreshold == [][TruncationRule(IsToolResult, TruncateThreshold)]_vars

\* C30 as the code has it: the messages cut are those whose text does not
\* start with "TOOL RESULT", and they are cut to their first 4500 characters
\* plus the marker
C30_CutToKeep == [][TruncationRule(StartsWithToolResult, TruncateKeep)]_vars

\* a truncation pass that cut one message and left a short one alone
C30_Witness ==
    /\ last.ev = "get"
    /\ last.truncated
    /\ \E m \in RangeOf(returned) :
          m.cut /\ m.len = TruncateKeep + TruncateMarkerLen /\ m.olen > TruncateThreshold
    /\ \E m \in RangeOf(returned) :
          m.role # "system" /\ ~m.cut /\ m.len <= TruncateThreshold


\* C31: a get_messages call leaves the stored history as it was: the same
\* entries in the same order with the same roles and contents
C31_GetLeavesHistory ==
    [][last'.ev = "get" => message_history' = message_history]_vars


\* the length-based estimate of a list of messages, and the same estimate
\* of the texts they were appended with
RECURSIVE FallbackSum(_)
FallbackSum(messages) ==
    IF messages = <<>> THEN 0
    ELSE (Head(messages).len \div 4) + FallbackSum(Tail(messages))

RECURSIVE FallbackSumAppended(_)
FallbackSumAppended(messages) ==
    IF messages = <<>> THEN 0
    ELSE (Head(messages).olen \div 4) + FallbackSumAppended(Tail(messages))

EstimatorFailed == last.ev = "plan" /\ ~last.tok_ok

\* C32: when the tokenizer fails in the get_messages call of a step, the
\* call still returns its list, measured with len(text) div 4 (a list
\* returned without truncation is within the budget by that measure, a
\* truncated one was over it), and the step goes on to the decision-maker
\* request: the failure is no error of the step
C32_EstimatorFailureAbsorbed ==
    EstimatorFailed =>
        /\ last.request # <<>>
        /\ last.error \in {"none", "llm error"}
        /\ last.error = "none" => (~last.recovered /\ pc \in {"loop", "acting"})
        /\ ~last.truncated => FallbackSum(last.request) <= max_tokens
        /\ last.truncated => FallbackSumAppended(last.request) > max_tokens

C32_Witness ==
    /\ EstimatorFailed
    /\ last.compressed
    /\ ~last.truncated
    /\ last.error = "none"
    /\ pc = "acting"


\* check_action has just answered for the named action with string arguments
Checked(name) ==
    /\ last.ev = "check"
    /\ enabled
    /\ last.call.name = name
    /\ last.call.args.selector.t = "str"
    /\ last.call.args.text.t = "str"

\* the classifier flagged the action: the verdict is unsafe or the
\* confirmation callback was asked
GateFlagged == ~last.verdict.safe \/ last.verdict.asked

\* C33: with the gate enabled a click is flagged exactly when its selector or
\* its reason contains a configured pattern, letter case ignored on both
\* sides
C33_ClickFlaggedAnyCase ==
    Checked("click") =>
        (GateFlagged <=>
            \E i \in 1..Len(destructive_patterns) :
                \/ Contains(lower(destructive_patterns[i]), lower(last.call.args.selector.v))
                \/ Contains(lower(destructive_patterns[i]), lower(last.call.args.reason.v)))


\* C34: with the gate enabled a type_text is flagged exactly when its
\* selector, letter case ignored, contains a payment, card or credential
\* keyword, whatever text is typed and whatever patterns are configured
C34_TypeTextSensitive ==
    Checked("type_text") =>
        (GateFlagged <=>
            \E keyword \in {<<"c","a","r","d">>, <<"p","a","y","m","e","n","t">>,
                            <<"c","v","v">>, <<"c","r","e","d","i","t">>,
                            <<"c","r","e","d","e","n","t","i","a","l">>} :
                Contains(keyword, lower(last.call.args.selector.v)))

\* C34 with the keywords the code has: "card", "payment", "cvv" and "credit"
C34_TypeTextByField ==
    Checked("type_text") =>
        (GateFlagged <=>
            \E keyword \in {<<"c","a","r","d">>, <<"p","a","y","m","e","n","t">>,
                            <<"c","v","v">>, <<"c","r","e","d","i","t">>} :
                Contains(keyword, lower(last.call.args.selector.v)))

\* a text that holds a keyword and a pattern, typed into a field that holds
\* neither, with a pattern configured
C34_Witness ==
    /\ Checked("type_text")
    /\ destructive_patterns # <<>>
    /\ last.call.args.text.v = SelCvv
    /\ last.call.args.selector.v = SelDelete
    /\ ~GateFlagged

\* C40: no action other than click and type_text is ever flagged: whatever
\* its arguments and the configured patterns, the verdict is safe without
\* required confirmation, nothing is raised and the callback is not asked
C40_OnlyClickAndTypeFlagged ==
    (last.ev = "check" /\ last.call.name \notin {"click", "type_text"}) =>
        /\ last.verdict.safe
        /\ ~last.verdict.requires_confirmation
        /\ ~last.verdict.asked
        /\ ~last.verdict.raised

\* a navigate whose url holds a configured pattern, with the gate enabled
\* and a callback set
C40_Witness ==
    /\ last.ev = "check"
    /\ enabled
    /\ user_confirmation_callback
    /\ last.call.name = "navigate"
    /\ last.call.args.url.t = "str"
    /\ \E i \in 1..Len(destructive_patterns) :
          Contains(destructive_patterns[i], last.call.args.url.v)
    /\ last.verdict.safe

\* a call whose value lies outside what the declared schema allows
OutOfSchema(call) ==
    \/ call.name = "wait" /\ call.args.seconds.v \notin 1..10
    \/ call.name = "scroll" /\ call.args.direction.v \notin {"up", "down"}
    \/ call.name = "scroll" /\ "amount" \in DOMAIN call.args
          /\ call.args.amount.v \notin {"small", "medium", "large", "page"}
    \/ call.name = "press_key" /\ call.args.key.v \notin ListedKeys

\* C35: a wait whose seconds lies outside 1..10, a scroll whose direction is
\* not up or down or whose amount is not small, medium, large or page, and a
\* press_key whose key is not listed are each answered with success = false
\* and nothing is performed on the browser
C35_SchemaValuesEnforced ==
    (last.ev = "dispatch" /\ OutOfSchema(last.call))
        => (~last.result.success /\ last.performed = <<>>)


\* the buffer still holds the result of a task_complete that the task
\* before the current one executed
EarlierTaskCompleted ==
    /\ tasks_run = 2
    /\ Len(message_history) >= 1
    /\ message_history[1].kind = "tool"
    /\ message_history[1].task = 1
    /\ message_history[1].body[1] = "task_complete"

\* C36: every execute_task call starts with the step counter at 0, the
\* completion flag false and no recorded result; a call that returns under
\* a budget of at least one step has run at least one loop iteration of its
\* own and returns a result whose steps_taken is its own step counter
C36_TaskStartsFresh ==
    /\ last.ev = "init"
          => (current_step = 0 /\ ~task_completed /\ task_result = None)
    /\ (outcome.kind = "returned" /\ max_steps >= 1)
          => (iterations >= 1 /\ outcome.result.steps_taken = current_step
              /\ current_step = iterations)

C36_Witness ==
    /\ EarlierTaskCompleted
    /\ outcome.kind = "returned"
    /\ max_steps >= 1
    /\ iterations >= 1


\* the calls of execute_task that have started and not yet ended
ActiveCalls == {c \in Calls : pc[c] \in {"page", "llm", "browser"}}

\* C37: at most one execute_task call is active on the instance at a time,
\* and a call that returns reports as steps_taken the number of loop passes
\* it made itself: no other call has written the step counter, the
\* completion flag or the recorded result it reads
C37_OneTaskAtATime ==
    /\ Cardinality(ActiveCalls) <= 1
    /\ \A c \in Calls :
          outcome[c].kind = "returned"
              => outcome[c].result.steps_taken = iterations[c]


\* the two newest messages are results of task_complete actions of the
\* current task: the response being processed executed more than one
TwoCompletions ==
    LET n == Len(message_history)
    IN /\ n >= 2
       /\ \A i \in {n - 1, n} :
             /\ message_history[i].kind = "tool"
             /\ message_history[i].task = tasks_run
             /\ message_history[i].body[1] = "task_complete"

\* C38: when a response executed more than one task_complete and
\* execute_task returns after the last of them, the TaskResult it returns
\* has the success flag and the result text of that last action and the
\* step in which it ran as steps_taken
C38_LastCompletionWins ==
    [][(/\ TwoCompletions
        /\ last.ev = "act"
        /\ last.call.name = "task_complete"
        /\ last'.ev = "finish")
          => outcome'.result = TaskResult(last.call.args.success.v,
                                          last.call.args.result.v,
                                          current_step, "none")]_vars

C38_Witness ==
    /\ TwoCompletions
    /\ last.ev = "finish"
    /\ outcome.kind = "returned"
    /\ task_completed
    /\ ~outcome.result.success
    /\ outcome.result.steps_taken = 2


\* the recovery prompt _attempt_recovery appends for an error in a step
RecoveryMessage(error, step) ==
    Message("user", "user", "text", <<"recovery", error, step>>, TextLen.recovery, tasks_run)

====
